---- MODULE Spec2Model ----
(***************************************************************************)
(* tower-batch: the Batch front-end (src/tower-batch/src/service.rs), the  *)
(* capacity-1 tokio mpsc queue it shares with the Worker, the one-shot     *)
(* response slots, and the Worker loop of section 4.2 of the design.       *)
(*                                                                         *)
(* Time is counted in ticks.  A tick passes only while the Worker is       *)
(* blocked waiting for a message or for its deadline; calls to the wrapped *)
(* service and the Worker's own steps take no model time.                  *)
(***************************************************************************)
EXTENDS Integers, Sequences, FiniteSets, TLC

\* ---- bounds of the model ----
NumClones == 2          \* Batch handles that may ever exist (the original and its clones)
MaxRequests == 3        \* invocations of Batch::call
MaxLiveRequests == 2    \* invocations of Batch::call in the behaviours checked for liveness
MaxItems == 3           \* max_items is drawn from 1..MaxItems
MaxLatencyTicks == 2    \* max_latency, in ticks
MaxFutureDrops == 1     \* the callers of the first MaxFutureDrops requests may drop their futures

\* ---- program constants ----
Capacity == 1           \* mpsc::channel(1)

Handles == 1..NumClones
Requests == 1..MaxRequests

\* ---- error values ----
NoError == "none"
ServiceError == "ServiceError"        \* the wrapped service's failure, rewrapped
FailedSilently == "FailedSilently"    \* generic "worker failed silently"
DroppedRequest == "DroppedRequest"    \* "worker dropped the request"
Errors == {ServiceError, FailedSilently, DroppedRequest}

\* ---- values of a response slot / a ResponseFuture ----
Unused == [kind |-> "unused", item |-> 0, err |-> NoError]
Pending == [kind |-> "pending", item |-> 0, err |-> NoError]
Ok(r) == [kind |-> "ok", item |-> r, err |-> NoError]
Err(e) == [kind |-> "err", item |-> 0, err |-> e]
Gone == [kind |-> "gone", item |-> 0, err |-> NoError]   \* one-shot sender dropped unwritten
Dropped == [kind |-> "dropped", item |-> 0, err |-> NoError]   \* future dropped by its caller

\* ---- calls seen by the wrapped service ----
Item(r) == [op |-> "Item", req |-> r, cause |-> "item"]
Flush(c) == [op |-> "Flush", req |-> 0, cause |-> c]

VARIABLES
    max_items,     \* the max_items given to Batch::new
    max_latency,   \* the max_latency given to Batch::new, in ticks
    hstate,        \* per Batch handle: "unborn", "live", "dropped", "panicked"
    permit,        \* per handle: tx holds the reserved slot
    pollResult,    \* per handle: what the last poll_ready since the last call returned
    waiters,       \* handles registered for a wake-up, in order of registration
    permits,       \* free permits of the queue's semaphore
    queue,         \* messages in the mpsc queue
    rxClosed,      \* the receiving end is closed or gone
    nextReq,       \* id of the request of the next call
    accepted,      \* history: requests whose try_send succeeded, in order
    slot,          \* per request: the one-shot response slot
    writes,        \* per request: how often the slot was written
    fut,           \* per request: what the ResponseFuture yields to its caller
    panicked,      \* history: call hit "buffer full; poll_ready must be called first"
    wstate,        \* Worker: "Collecting", "AwaitItem", "Flushing", "Stopped", "Aborted"
    cur,           \* Worker: the message being processed, NoMessage if none
    count,         \* Worker: items in the current batch
    timer,         \* Worker: ticks left on the deadline timer, -1 when not running
    age,           \* history: ticks since the first item of the current batch was accepted
    cell,          \* Handle: the shared error cell
    cellWrites,    \* history: how often the cell was written
    log,           \* history: the calls the wrapped service received
    svcFailed      \* history: the wrapped service has returned an error

chanVars == <<permit, waiters, permits, queue, rxClosed>>
handleVars == <<hstate, pollResult, panicked>>
reqVars == <<nextReq, accepted, slot, writes, fut>>
workerVars == <<wstate, cur, count, timer, age, cell, cellWrites, log, svcFailed>>
confVars == <<max_items, max_latency>>
vars == <<confVars, handleVars, chanVars, reqVars, workerVars>>

\* ---- helpers ----
Live(h) == hstate[h] = "live"
\* Mutant of NoSenders: only the original handle's sender is counted.
NoSenders_original_only == hstate[1] # "live"

NoSenders == \A h \in Handles : hstate[h] # "live"
Without(seq, h) == SelectSeq(seq, LAMBDA x : x # h)
InSeq(seq, x) == \E i \in 1..Len(seq) : seq[i] = x
\* Message { request, span, tx }: a request travelling with the writing end of its
\* response slot.
Message_first_slot(request, tx) == [request |-> request, tx |-> 1]

Message(request, tx) == [request |-> request, tx |-> tx]

\* The Worker holds no message.
NoMessage == [request |-> 0, tx |-> 0]

\* The requests and the response slots of a sequence of messages.
RequestsOf(q) == [i \in 1..Len(q) |-> q[i].request]
SlotsOf(q) == {q[i].tx : i \in 1..Len(q)}

\* ---- the tokio mpsc queue, as service.rs uses it ----
\* The bounded queue follows its documented contract: poll_ready reserves a slot for
\* the sender it is called on, no other sender may use that slot, and after a ready
\* poll_ready a try_send succeeds unless the queue has been closed since.  A slot
\* goes back when the receiver takes the message or the sender holding it is
\* dropped, and waiting senders are served in the order they registered.

\* A queue with one slot more than asked for.
channel_one_more(n) == n + 1

\* mpsc::channel(1): the free permits of a new queue.
channel(n) == n

\* Mutant of tx_poll_ready: a sender that already holds the reserved slot is told
\* ready before the closed queue is looked at.
tx_poll_ready_holds_first(closed, holds, free) ==
    IF holds THEN "ready"
    ELSE IF closed THEN "err"
    ELSE IF free > 0 THEN "ready"
    ELSE "pending"

\* Sender::poll_ready: an error once the receiving end is closed, ready when this
\* sender holds the reserved slot or can reserve one, pending otherwise.
tx_poll_ready_never_err(closed, holds, free) ==
    IF holds \/ free > 0 THEN "ready" ELSE "pending"

tx_poll_ready(closed, holds, free) ==
    IF closed THEN "err"
    ELSE IF holds \/ free > 0 THEN "ready"
    ELSE "pending"

\* Mutant of try_send: a sender that holds the reserved slot sends without looking
\* at whether the receiving end is closed.
try_send_ignores_closed(closed, holds, free) ==
    IF holds THEN "Ok"
    ELSE IF closed THEN "Closed"
    ELSE IF free > 0 THEN "Ok"
    ELSE "Full"

\* Mutant of try_send: the slot reserved by poll_ready is not honoured.
try_send_ignores_reservation(closed, holds, free) ==
    IF closed THEN "Closed"
    ELSE IF free > 0 THEN "Ok"
    ELSE "Full"

\* Sender::try_send: Closed once the receiving end is closed, Ok when this sender
\* holds the reserved slot or a slot is free, Full otherwise.
try_send(closed, holds, free) ==
    IF closed THEN "Closed"
    ELSE IF holds \/ free > 0 THEN "Ok"
    ELSE "Full"

\* Mutants of Push: the message is pushed twice; the message is lost.
Push_twice(q, r) == Append(Append(q, r), r)
Push_lost(q, r) == q

\* The queue after a message was pushed.
Push(q, r) == Append(q, r)

\* Mutant of Release: the permit goes back to the semaphore and the waiting sender
\* is not handed the slot (a lost wake-up).
Release_no_handoff(ws, pm, free) ==
    [waiters |-> ws, permit |-> pm, permits |-> free + 1]

\* A permit comes back (message received, or a sender holding the slot dropped):
\* it goes to the first waiting sender, or back to the semaphore.
Release(ws, pm, free) ==
    IF ws # <<>>
    THEN [waiters |-> Tail(ws), permit |-> [pm EXCEPT ![Head(ws)] = TRUE], permits |-> free]
    ELSE [waiters |-> ws, permit |-> pm, permits |-> free + 1]

\* ---- Handle ----

\* Handle::get_error_on_closed: the stored error, or the generic one.
get_error_on_closed(c) == IF c = NoError THEN FailedSilently ELSE c

\* Variants of get_worker_error that do not consult the Handle.
get_worker_error_generic(c) == FailedSilently
get_worker_error_service(c) == ServiceError

\* Batch::get_worker_error
get_worker_error(c) == get_error_on_closed(c)

\* ---- Batch::new ----

\* Mutants of NewWorker: one item too many per batch; one tick too many of latency.
NewWorker_items_plus_one(items, latency) == [max_items |-> items + 1, max_latency |-> latency]
NewWorker_latency_plus_one(items, latency) == [max_items |-> items, max_latency |-> latency + 1]
NewWorker_no_deadline(items, latency) == [max_items |-> items, max_latency |-> -1]

\* Worker::new(service, rx, max_items, max_latency): the policy the Worker runs with.
NewWorker(items, latency) == [max_items |-> items, max_latency |-> latency]

\* The Worker spawned by Batch::new.
worker == NewWorker(max_items, max_latency)

Init ==
    /\ max_items \in 1..MaxItems
    /\ max_latency = MaxLatencyTicks
    /\ hstate = [h \in Handles |-> IF h = 1 THEN "live" ELSE "unborn"]
    /\ permit = [h \in Handles |-> FALSE]
    /\ pollResult = [h \in Handles |-> "none"]
    /\ waiters = <<>>
    /\ permits = channel(Capacity)
    /\ queue = <<>>
    /\ rxClosed = FALSE
    /\ nextReq = 1
    /\ accepted = <<>>
    /\ slot = [r \in Requests |-> Unused]
    /\ writes = [r \in Requests |-> 0]
    /\ fut = [r \in Requests |-> Unused]
    /\ panicked = FALSE
    /\ wstate = "Collecting"
    /\ cur = NoMessage
    /\ count = 0
    /\ timer = -1
    /\ age = 0
    /\ cell = NoError
    /\ cellWrites = 0
    /\ log = <<>>
    /\ svcFailed = FALSE

\* ---- Batch (front-end) ----

\* Batch::poll_ready
poll_ready(h) ==
    /\ Live(h)
    /\ LET res == tx_poll_ready(rxClosed, permit[h], permits) IN
       CASE res = "err" ->
              /\ pollResult' = [pollResult EXCEPT ![h] = get_worker_error(cell)]
              /\ waiters' = Without(waiters, h)
              /\ UNCHANGED <<permit, permits>>
         [] res = "ready" ->
              /\ pollResult' = [pollResult EXCEPT ![h] = "ready"]
              /\ permit' = [permit EXCEPT ![h] = TRUE]
              /\ permits' = IF permit[h] THEN permits ELSE permits - 1
              /\ waiters' = Without(waiters, h)
         [] res = "pending" ->
              /\ pollResult' = [pollResult EXCEPT ![h] = "pending"]
              /\ waiters' = IF InSeq(waiters, h) THEN waiters ELSE Append(waiters, h)
              /\ UNCHANGED <<permit, permits>>
    /\ UNCHANGED <<hstate, panicked, queue, rxClosed, reqVars, workerVars, confVars>>

\* Batch::call
call(h) ==
    /\ Live(h)
    /\ nextReq <= MaxRequests
    /\ LET r == nextReq
           tx == nextReq   \* oneshot::channel(): a fresh slot for this call
           res == try_send(rxClosed, permit[h], permits) IN
       /\ nextReq' = r + 1
       /\ pollResult' = [pollResult EXCEPT ![h] = "none"]
       /\ waiters' = Without(waiters, h)
       /\ CASE res = "Closed" ->
                 \* the message, and the slot's writer with it, is dropped
                 /\ fut' = [fut EXCEPT ![r] = Err(get_worker_error(cell))]
                 /\ slot' = [slot EXCEPT ![tx] = Gone]
                 /\ permit' = [permit EXCEPT ![h] = FALSE]
                 /\ UNCHANGED <<permits, queue, accepted, hstate, panicked>>
            [] res = "Full" ->
                 /\ panicked' = TRUE
                 /\ hstate' = [hstate EXCEPT ![h] = "panicked"]
                 /\ slot' = [slot EXCEPT ![tx] = Gone]
                 /\ UNCHANGED <<fut, permit, permits, queue, accepted>>
            [] res = "Ok" ->
                 /\ queue' = Push(queue, Message(r, tx))
                 /\ accepted' = Append(accepted, r)
                 /\ permit' = [permit EXCEPT ![h] = FALSE]
                 /\ permits' = IF permit[h] THEN permits ELSE permits - 1
                 /\ slot' = [slot EXCEPT ![tx] = Pending]
                 /\ fut' = [fut EXCEPT ![r] = Pending]
                 /\ UNCHANGED <<hstate, panicked>>
    /\ UNCHANGED <<writes, rxClosed, workerVars, confVars>>

\* Clone for Batch: a new handle on the same queue and Handle, holding no slot.
clone(h) ==
    /\ Live(h)
    /\ \E g \in Handles :
         /\ hstate[g] = "unborn"
         /\ \A g2 \in Handles : hstate[g2] = "unborn" => g <= g2
         /\ hstate' = [hstate EXCEPT ![g] = "live"]
    /\ UNCHANGED <<pollResult, panicked, chanVars, reqVars, workerVars, confVars>>

\* A Batch handle is dropped: its sender gives back a slot it still holds.
drop(h) ==
    /\ Live(h)
    /\ hstate' = [hstate EXCEPT ![h] = "dropped"]
    /\ pollResult' = [pollResult EXCEPT ![h] = "none"]
    /\ IF permit[h] /\ ~rxClosed
       THEN LET rel == Release(Without(waiters, h), [permit EXCEPT ![h] = FALSE], permits) IN
            /\ waiters' = rel.waiters
            /\ permit' = rel.permit
            /\ permits' = rel.permits
       ELSE /\ waiters' = Without(waiters, h)
            /\ permit' = [permit EXCEPT ![h] = FALSE]
            /\ UNCHANGED permits
    /\ UNCHANGED <<panicked, queue, rxClosed, reqVars, workerVars, confVars>>

\* ---- ResponseFuture ----

\* ResponseFuture::new(rx): what the future yields for the state of its slot: the
\* value written, "worker dropped the request" when the writer was dropped
\* unwritten, nothing yet otherwise.
FutureValue(s) == IF s.kind = "gone" THEN Err(DroppedRequest) ELSE s

\* The futures after the slots changed: a future that is still pending follows its slot.
Futures(f, sl) == [r \in Requests |-> IF f[r] = Pending THEN FutureValue(sl[r]) ELSE f[r]]

\* The caller drops a ResponseFuture that has not completed: the reading end of
\* its slot goes away, the message and the writing end stay where they are.
FutureDrop(r) ==
    /\ fut[r] = Pending
    /\ r <= MaxFutureDrops
    /\ fut' = [fut EXCEPT ![r] = Dropped]
    /\ UNCHANGED <<nextReq, accepted, slot, writes, handleVars, chanVars, workerVars, confVars>>

\* ---- Worker (section 4.2) ----

Running == wstate \notin {"Stopped", "Aborted"}

\* Step 4: the batch closes by count once the item count reaches max_items.
BatchFull(n, k) == n >= k

\* The slots of every message accepted into the queue and not yet responded:
\* the one being processed and the ones still queued.
Unanswered(c, q) == (IF c = NoMessage THEN {} ELSE {c.tx}) \cup SlotsOf(q)

\* Steps 1-3: take the next message, start the deadline with the first item of a
\* batch, forward the request as BatchControl::Item.
WorkerRecv ==
    /\ wstate = "Collecting"
    /\ queue # <<>>
    /\ LET msg == Head(queue)
           rel == Release(waiters, permit, permits) IN
       /\ queue' = Tail(queue)
       /\ waiters' = rel.waiters
       /\ permit' = rel.permit
       /\ permits' = rel.permits
       /\ cur' = msg
       /\ log' = Append(log, Item(msg.request))
    /\ timer' = IF count = 0 THEN worker.max_latency ELSE timer
    /\ age' = IF count = 0 THEN 0 ELSE age
    /\ wstate' = "AwaitItem"
    /\ UNCHANGED <<count, cell, cellWrites, svcFailed, rxClosed, handleVars, reqVars, confVars>>

\* Steps 3-5: the Item call succeeded; its result goes into the message's slot, and
\* the batch is flushed when it is full.
ItemOk ==
    /\ wstate = "AwaitItem"
    /\ slot' = [slot EXCEPT ![cur.tx] = Ok(cur.request)]
    /\ writes' = [writes EXCEPT ![cur.tx] = @ + 1]
    /\ fut' = Futures(fut, slot')
    /\ cur' = NoMessage
    /\ count' = count + 1
    /\ IF BatchFull(count + 1, worker.max_items)
       THEN /\ log' = Append(log, Flush("count"))
            /\ wstate' = "Flushing"
       ELSE /\ wstate' = "Collecting"
            /\ UNCHANGED log
    /\ UNCHANGED <<timer, age, cell, cellWrites, svcFailed, nextReq, accepted,
                   handleVars, chanVars, confVars>>

\* Step 6: where the Worker goes after a failure of the wrapped service.
FailedState_retry == "Collecting"

FailedState == "Stopped"

\* Step 6: the wrapped service returned an error.  It is written into the Handle's
\* cell, every accepted and unanswered message gets it, and the Worker exits, which
\* closes the receiving end.
Failed ==
    /\ svcFailed' = TRUE
    /\ cell' = IF cell = NoError THEN ServiceError ELSE cell
    /\ cellWrites' = IF cell = NoError THEN cellWrites + 1 ELSE cellWrites
    /\ slot' = [r \in Requests |-> IF r \in Unanswered(cur, queue) THEN Err(ServiceError) ELSE slot[r]]
    /\ writes' = [r \in Requests |-> IF r \in Unanswered(cur, queue) THEN writes[r] + 1 ELSE writes[r]]
    /\ fut' = Futures(fut, slot')
    /\ queue' = <<>>
    /\ rxClosed' = TRUE
    /\ waiters' = <<>>
    /\ cur' = NoMessage
    /\ timer' = -1
    /\ wstate' = FailedState
    /\ UNCHANGED <<count, age, log, permit, permits, nextReq, accepted, handleVars, confVars>>

ItemErr ==
    /\ wstate = "AwaitItem"
    /\ Failed

\* Step 4: the deadline fires on a partial batch.
DeadlineFires ==
    /\ wstate = "Collecting"
    /\ timer = 0
    /\ log' = Append(log, Flush("timer"))
    /\ wstate' = "Flushing"
    /\ UNCHANGED <<cur, count, timer, age, cell, cellWrites, svcFailed, handleVars, chanVars,
                   reqVars, confVars>>

\* A batch of n items is outstanding: there is something to flush.
PartialBatch_any(n) == n >= 0

PartialBatch(n) == n > 0

\* Step 4: every producer is gone while a partial batch is outstanding.
CloseFlush ==
    /\ wstate = "Collecting"
    /\ NoSenders
    /\ queue = <<>>
    /\ PartialBatch(count)
    /\ log' = Append(log, Flush("close"))
    /\ wstate' = "Flushing"
    /\ UNCHANGED <<cur, count, timer, age, cell, cellWrites, svcFailed, handleVars, chanVars,
                   reqVars, confVars>>

\* Step 5: the Flush was acknowledged; back to collecting, with an empty batch.
FlushOk ==
    /\ wstate = "Flushing"
    /\ count' = 0
    /\ timer' = -1
    /\ age' = 0
    /\ wstate' = "Collecting"
    /\ UNCHANGED <<cur, cell, cellWrites, log, svcFailed, handleVars, chanVars, reqVars, confVars>>

FlushErr ==
    /\ wstate = "Flushing"
    /\ Failed

\* Step 1: every producer is gone and the batch is empty: clean shutdown.
Shutdown ==
    /\ wstate = "Collecting"
    /\ NoSenders
    /\ queue = <<>>
    /\ ~PartialBatch(count)
    /\ wstate' = "Stopped"
    /\ rxClosed' = TRUE
    /\ UNCHANGED <<cur, count, timer, age, cell, cellWrites, log, svcFailed, permit, waiters,
                   permits, queue, handleVars, reqVars, confVars>>

\* Step 7: the Worker task ends without reporting (aborted, or it faulted): the
\* receiving end and every message the Worker still owns are dropped.
Abort ==
    /\ Running
    /\ wstate' = "Aborted"
    /\ slot' = [r \in Requests |-> IF r \in Unanswered(cur, queue) THEN Gone ELSE slot[r]]
    /\ fut' = Futures(fut, slot')
    /\ queue' = <<>>
    /\ rxClosed' = TRUE
    /\ waiters' = <<>>
    /\ cur' = NoMessage
    /\ timer' = -1
    /\ UNCHANGED <<count, age, cell, cellWrites, log, svcFailed, permit, permits, nextReq,
                   accepted, writes, handleVars, confVars>>

\* A tick passes while the Worker waits on a running deadline.
Tick ==
    /\ wstate = "Collecting"
    /\ queue = <<>>
    /\ ~NoSenders
    /\ timer > 0
    /\ timer' = timer - 1
    /\ age' = age + 1
    /\ UNCHANGED <<cur, count, wstate, cell, cellWrites, log, svcFailed, handleVars, chanVars,
                   reqVars, confVars>>

Next ==
    \/ \E h \in Handles : poll_ready(h)
    \/ \E h \in Handles : call(h)
    \/ \E h \in Handles : clone(h)
    \/ \E h \in Handles : drop(h)
    \/ \E r \in Requests : FutureDrop(r)
    \/ WorkerRecv
    \/ ItemOk
    \/ ItemErr
    \/ DeadlineFires
    \/ CloseFlush
    \/ FlushOk
    \/ FlushErr
    \/ Shutdown
    \/ Abort
    \/ Tick

Spec == Init /\ [][Next]_vars

\* ---- scheduling ----

\* A task that was woken is polled again: a handle whose poll_ready is pending and
\* which was handed the slot, or whose queue was closed.
Woken(h) == Live(h) /\ pollResult[h] = "pending" /\ (permit[h] \/ rxClosed)

\* One step of the Worker task: the Worker is a single sequential task, the wrapped
\* service answers every call, and time passes while the Worker waits.
WorkerStep ==
    \/ WorkerRecv \/ ItemOk \/ ItemErr \/ DeadlineFires \/ CloseFlush
    \/ FlushOk \/ FlushErr \/ Shutdown \/ Tick

\* The Worker task is scheduled whenever it can take a step, and a woken task is polled.
Fairness ==
    /\ WF_vars(WorkerStep)
    /\ WF_vars(\E h \in Handles : Woken(h) /\ poll_ready(h))

\* The behaviours checked for liveness make at most MaxLiveRequests calls.
LiveNext ==
    \/ \E h \in Handles : poll_ready(h)
    \/ \E h \in Handles : nextReq <= MaxLiveRequests /\ call(h)
    \/ \E h \in Handles : clone(h)
    \/ \E h \in Handles : drop(h)
    \/ WorkerStep
    \/ Abort

FairSpec == Init /\ [][LiveNext]_vars /\ Fairness

\* ---- properties ----

Accepted(r) == InSeq(accepted, r)
Done(r) == fut[r].kind \in {"ok", "err"}

\* The response to request r: what its future holds, or, when the caller dropped
\* the future, what the future would have read from the slot.
Response(r) == IF fut[r] = Dropped THEN FutureValue(slot[r]) ELSE fut[r]

\* C1: every request accepted by call gets exactly one response: its slot is written
\* at most once, its future holds either the wrapped service's result for that very
\* request or an error, never both and never a second value once it has one, and no
\* accepted request stays pending forever (a future its caller dropped aside).
ExactlyOnceResponse ==
    /\ [](\A r \in Requests :
            /\ writes[r] <= 1
            /\ Accepted(r) => Response(r) \in {Pending, Ok(r)} \cup {Err(e) : e \in Errors}
            /\ Done(r) /\ writes[r] = 1 => fut[r] = slot[r])
    /\ [][\A r \in Requests : Done(r) => fut'[r] = fut[r]]_vars
    /\ \A r \in Requests : Accepted(r) ~> (Done(r) \/ fut[r] = Dropped)

\* C1 witness: one accepted request answered with its result, another with an error.
ExactlyOnceResponseWitness ==
    \E r1, r2 \in Requests :
        /\ Accepted(r1) /\ fut[r1] = Ok(r1) /\ writes[r1] = 1
        /\ Accepted(r2) /\ fut[r2].kind = "err" /\ writes[r2] = 1

\* The requests of the Item calls the wrapped service received, in order.
ItemsOf(l) ==
    LET items == SelectSeq(l, LAMBDA e : e.op = "Item")
    IN [i \in 1..Len(items) |-> items[i].req]

IsPrefix(a, b) == Len(a) <= Len(b) /\ \A i \in 1..Len(a) : a[i] = b[i]

\* C2: the Item calls the wrapped service sees are the accepted requests in the
\* order of acceptance: always a prefix of them, and, while the wrapped service has
\* not failed and the Worker runs, all of them but the ones still queued.
FifoForwarding ==
    /\ IsPrefix(ItemsOf(log), accepted)
    /\ (~svcFailed /\ wstate # "Aborted") => accepted = ItemsOf(log) \o RequestsOf(queue)

\* C2 witness: three requests, accepted while a clone exists, were all forwarded.
FifoForwardingWitness ==
    /\ Len(ItemsOf(log)) >= 3
    /\ ItemsOf(log) = accepted
    /\ hstate[2] # "unborn"

\* C3: when the wrapped service returns an error, every accepted request without a
\* response, queued ones included, gets the error of that failure; after the failure
\* every accepted request holds its own result or that error.
FailureFanOut ==
    /\ [][(svcFailed' /\ ~svcFailed) =>
            \A r \in Requests :
                (Accepted(r) /\ fut[r] = Pending) => fut'[r] = Err(ServiceError)]_vars
    /\ [](svcFailed => \A r \in Requests :
                Accepted(r) => Response(r) \in {Ok(r), Err(ServiceError)})

\* C3 witness: the failure reached a request being processed and one still queued,
\* which was never forwarded.
FailureFanOutWitness ==
    /\ svcFailed
    /\ \E r1, r2 \in Requests :
        /\ r1 # r2
        /\ Accepted(r1) /\ fut[r1] = Err(ServiceError)
        /\ Accepted(r2) /\ fut[r2] = Err(ServiceError)
        /\ \A i \in 1..Len(log) : log[i].req # r2

\* C4: after the wrapped service failed, poll_ready on every handle returns an error
\* and call returns a failed future: nothing is accepted and no response turns
\* successful any more.
AfterFailure ==
    /\ [](svcFailed =>
            /\ \A h \in Handles : Live(h) =>
                /\ tx_poll_ready(rxClosed, permit[h], permits) = "err"
                /\ try_send(rxClosed, permit[h], permits) = "Closed"
            /\ get_worker_error(cell) = ServiceError
            /\ \A r \in Requests : (~Accepted(r) /\ fut[r].kind = "err") => fut[r] = Err(ServiceError))
    /\ [][svcFailed =>
            /\ accepted' = accepted
            /\ \A r \in Requests : fut'[r].kind = "ok" => fut[r].kind = "ok"
            /\ \A h \in Handles : pollResult'[h] # pollResult[h] => pollResult'[h] \in {ServiceError, "none"}]_vars

\* C4 witness: after the failure a handle polled and got the error, and a call got
\* a failed future.
AfterFailureWitness ==
    /\ svcFailed
    /\ \E h \in Handles : Live(h) /\ pollResult[h] = ServiceError
    /\ \E r \in Requests : ~Accepted(r) /\ fut[r] = Err(ServiceError)

\* C5: a call by a handle whose poll_ready returned ready never finds the queue
\* full: it enqueues the message or, the queue being closed, returns a failed future.
ReadyThenCall ==
    /\ [](\A h \in Handles : (Live(h) /\ pollResult[h] = "ready") =>
            try_send(rxClosed, permit[h], permits) # "Full")
    /\ [][\A h \in Handles :
            (pollResult[h] = "ready" /\ pollResult'[h] = "none" /\ nextReq' # nextReq) =>
                /\ hstate'[h] = "live"
                /\ \/ /\ RequestsOf(queue') = Append(RequestsOf(queue), nextReq)
                      /\ accepted' = Append(accepted, nextReq)
                      /\ fut'[nextReq] = Pending
                   \/ /\ rxClosed
                      /\ fut'[nextReq].kind = "err"
                      /\ UNCHANGED <<queue, accepted>>]_vars

\* C5 witness: two handles raced for the slot; one got it, called and enqueued its
\* second request while the other waits, and nobody hit the full queue.
ReadyThenCallWitness ==
    /\ ~panicked
    /\ Len(accepted) >= 2
    /\ queue # <<>>
    /\ \E g \in Handles : Live(g) /\ pollResult[g] = "pending" /\ InSeq(waiters, g)

\* The queue's only slot is taken by somebody other than h.
Occupied(h) == queue # <<>> \/ \E g \in Handles \ {h} : permit[g]

\* Handle h waits in poll_ready and the slot of the open queue is free again for it.
WaitingForFreeSlot(h) ==
    Live(h) /\ pollResult[h] = "pending" /\ ~rxClosed /\ ~Occupied(h)

\* h no longer waits: it was dropped, or it called without polling again.
GaveUp(h) == ~Live(h) \/ pollResult[h] = "none"

\* While the open queue is occupied poll_ready returns pending, never ready.
NotReadyWhileOccupied ==
    /\ [](\A h \in Handles : (Live(h) /\ ~rxClosed /\ Occupied(h)) =>
            tx_poll_ready(rxClosed, permit[h], permits) = "pending")
    /\ [][\A h \in Handles :
            (pollResult'[h] = "ready" /\ pollResult[h] # "ready") => ~Occupied(h)]_vars

\* C6: while the queue is occupied poll_ready is not ready, and a handle waiting in
\* poll_ready when the Worker takes the message out is woken and its poll_ready
\* returns: ready, or the queue's error when the queue was closed in the meantime.
Backpressure ==
    /\ NotReadyWhileOccupied
    /\ \A h \in Handles :
        WaitingForFreeSlot(h) ~>
            (pollResult[h] = "ready" \/ pollResult[h] \in Errors \/ GaveUp(h))

\* C6 witness: the Worker took the message out while a handle waited in poll_ready,
\* and the waiting handle has been handed the slot.
BackpressureWitness ==
    /\ cur # NoMessage
    /\ ~rxClosed
    /\ \E h \in Handles : WaitingForFreeSlot(h) /\ permit[h]

\* Every Batch handle has been dropped.
AllDropped == \A h \in Handles : hstate[h] # "live"

\* Every Flush so far was sent because the batch was full.
OnlyCountFlushes == \A i \in 1..Len(log) : log[i].op = "Flush" => log[i].cause = "count"

\* C7: with max_items = k and no Flush caused by the deadline (or by shutdown), the
\* wrapped service sees k Items, Flush, k Items, Flush, ...: every (k+1)-th call is
\* a Flush and no other is, and after a k-th Item nothing but its Flush follows.
CountBoundary ==
    OnlyCountFlushes =>
        /\ \A i \in 1..Len(log) : (log[i].op = "Flush") <=> (i % (max_items + 1) = 0)
        /\ (Len(log) % (max_items + 1) = max_items) => wstate \in {"AwaitItem", "Stopped", "Aborted"}

\* C7 witness: max_items = 1, two requests, each followed by its Flush.
CountBoundaryWitness ==
    /\ max_items = 1
    /\ log = <<Item(1), Flush("count"), Item(2), Flush("count")>>

MaxItemsPerBatch ==
    \A i \in 1..Len(log) : \A j \in i..Len(log) :
        (\A n \in i..j : log[n].op = "Item") => (j - i + 1 <= max_items)

\* C9 witness: max_items = 2; a full batch was flushed and the next batch begun.
MaxItemsPerBatchWitness ==
    /\ max_items = 2
    /\ log = <<Item(1), Item(2), Flush("count"), Item(3)>>

\* C10: once every Batch clone is dropped and the wrapped service has not failed,
\* the Worker stops (unless its task is aborted), and when it has stopped every
\* accepted request was forwarded and answered, the last call was a Flush, and the
\* Handle's error cell is empty.
CleanShutdown ==
    /\ [](wstate = "Stopped" /\ ~svcFailed =>
            /\ AllDropped
            /\ queue = <<>>
            /\ ItemsOf(log) = accepted
            /\ \A r \in Requests : Accepted(r) => Response(r) = Ok(r)
            /\ log # <<>> => log[Len(log)].op = "Flush"
            /\ cell = NoError /\ cellWrites = 0)
    /\ (AllDropped /\ ~svcFailed) ~> (wstate \in {"Stopped", "Aborted"})

\* C10 witness: the Worker stopped cleanly after flushing a partial batch because
\* the producers were gone.
CleanShutdownWitness ==
    /\ wstate = "Stopped" /\ ~svcFailed
    /\ cell = NoError
    /\ accepted # <<>>
    /\ log[Len(log)] = Flush("close")

\* C11: a call made when the queue is already closed returns a future that is
\* already resolved with the Handle's terminal error (the stored error, or the
\* generic one when none is stored); the request is not enqueued, nothing is
\* forwarded to the wrapped service for it, and the call does not panic.
CallOnClosedQueue ==
    /\ [][\A h \in Handles :
            (rxClosed /\ call(h)) =>
                /\ fut'[nextReq] = Err(get_error_on_closed(cell))
                /\ queue' = queue
                /\ accepted' = accepted
                /\ log' = log
                /\ panicked' = panicked
                /\ hstate' = hstate]_vars
    /\ [](\A r \in Requests :
            (r < nextReq /\ ~Accepted(r) /\ fut[r] # Unused) =>
                /\ fut[r] = Err(get_error_on_closed(cell))
                /\ ~InSeq(ItemsOf(log), r)
                /\ ~InSeq(RequestsOf(queue), r)
                /\ writes[r] = 0)

\* C11 witness: after the Worker task ended without an error, a call was made on
\* the closed queue and its future carries the generic error; no panic happened.
CallOnClosedQueueWitness ==
    /\ wstate = "Aborted"
    /\ ~panicked
    /\ \E r \in Requests :
          /\ r < nextReq
          /\ ~Accepted(r)
          /\ fut[r] = Err(FailedSilently)

\* C12: poll_ready on a closed queue returns an error, neither ready nor pending:
\* the error stored in the Handle, or the generic "worker failed silently" while the
\* cell is still empty.
PollReadyOnClosedQueue ==
    /\ [](\A h \in Handles : pollResult[h] \in Errors =>
              /\ rxClosed
              /\ pollResult[h] = IF cell = NoError THEN FailedSilently ELSE cell)
    /\ [][\A h \in Handles :
            (rxClosed /\ poll_ready(h)) =>
                pollResult'[h] = IF cell = NoError THEN FailedSilently ELSE cell]_vars

\* C12 witness: one handle polled the closed queue of a Worker that ended without an
\* error and got the generic error, although it still held the reserved slot.
PollReadyOnClosedQueueWitness ==
    /\ wstate = "Aborted"
    /\ cell = NoError
    /\ \E h \in Handles :
          /\ Live(h)
          /\ permit[h]
          /\ pollResult[h] = FailedSilently

\* The number of Item calls after the last Flush of the log.
OpenItems(l) ==
    LET flushes == {i \in 1..Len(l) : l[i].op = "Flush"}
        last == IF flushes = {} THEN 0 ELSE CHOOSE i \in flushes : \A j \in flushes : j <= i
    IN Len(l) - last

\* C13: dropping a ResponseFuture before it completes cancels nothing: the request
\* stays queued, is forwarded as an Item in its FIFO position and counts toward the
\* batch; the Worker discards its result, does not take the missing reader for a
\* failure and keeps serving.
DroppedFutureStillServed ==
    /\ [](\A r \in Requests : fut[r] = Dropped =>
              /\ Accepted(r)
              /\ \/ InSeq(RequestsOf(queue), r)
                 \/ InSeq(ItemsOf(log), r)
                 \/ svcFailed
                 \/ wstate = "Aborted")
    /\ [](IsPrefix(ItemsOf(log), accepted))
    /\ [](wstate = "Collecting" => count = OpenItems(log))
    /\ [][(cur # NoMessage /\ fut[cur.tx] = Dropped /\ cur' = NoMessage
                /\ ~svcFailed' /\ wstate' # "Aborted") =>
            /\ slot'[cur.tx] = Ok(cur.request)
            /\ count' = count + 1
            /\ fut' = fut
            /\ wstate' \in {"Collecting", "Flushing"}
            /\ ~rxClosed']_vars

\* C13 witness: the future of the first request was dropped; the request was
\* forwarded all the same, its result written and discarded, and the next request
\* was served in the same batch.
DroppedFutureStillServedWitness ==
    /\ fut[1] = Dropped
    /\ slot[1] = Ok(1)
    /\ fut[2] = Ok(2)
    /\ Len(log) >= 2 /\ log[1] = Item(1) /\ log[2] = Item(2)
    /\ count = 2
    /\ wstate = "Collecting"

\* C14: the Handle's error cell is write-once: empty at the start, written at most
\* once, never changed after it was written, written only when the wrapped service
\* failed or the Worker ended abnormally, and still empty when the Worker stopped
\* because the queue was closed normally; every Batch clone reads the same value.
ErrorCellWriteOnce ==
    /\ cell = NoError
    /\ [](cellWrites <= 1 /\ (cell = NoError <=> cellWrites = 0))
    /\ [][cell # NoError => cell' = cell]_vars
    /\ [](cell # NoError => svcFailed \/ wstate = "Aborted")
    /\ [](wstate = "Stopped" /\ ~svcFailed => cell = NoError)
    /\ [](\A h \in Handles : pollResult[h] \in Errors =>
              pollResult[h] = get_error_on_closed(cell))
    /\ [](\A h, g \in Handles :
              (pollResult[h] \in Errors /\ pollResult[g] \in Errors) =>
                  pollResult[h] = pollResult[g])

\* C14 witness: the cell was written once with the service's error and the original
\* and a clone both read that error.
ErrorCellWriteOnceWitness ==
    /\ cell = ServiceError
    /\ cellWrites = 1
    /\ Live(1) /\ pollResult[1] = ServiceError
    /\ Live(2) /\ pollResult[2] = ServiceError

\* C15: a failure is terminal and is never retried: once an Item or Flush call has
\* returned an error the Worker sends the wrapped service nothing more, neither the
\* failed call again nor a closing Flush, and takes no further message from the
\* queue.
FailureTerminal ==
    /\ [][(svcFailed' /\ ~svcFailed) => log' = log]_vars
    /\ [][svcFailed => (svcFailed' /\ log' = log /\ cur' = NoMessage /\ wstate' = wstate)]_vars
    /\ [](svcFailed => cur = NoMessage /\ ~Running)

\* C15 witness: the Flush of a batch failed with every handle gone and a message
\* accepted behind it: the log ends with that Flush and the message was never read.
FailureTerminalWitness ==
    /\ svcFailed
    /\ AllDropped
    /\ log # <<>> /\ log[Len(log)].op = "Flush"
    /\ Len(ItemsOf(log)) < Len(accepted)

\* The handles that hold the reserved slot.
Reserved == {h \in Handles : permit[h]}

\* C16: the messages in the queue and the handles holding a reservation are never
\* more than one together; when clones race for the free slot one of them gets
\* ready and the others are not ready until the slot was used and drained.
AdmissionBound ==
    /\ Len(queue) + Cardinality(Reserved) <= Capacity
    /\ ~rxClosed => Len(queue) + Cardinality(Reserved) + permits = Capacity
    /\ Cardinality({h \in Handles : pollResult[h] = "ready"}) <= 1
    /\ \A h \in Handles : pollResult[h] = "ready" => Reserved = {h} /\ queue = <<>>
    /\ \A h \in Handles : (InSeq(waiters, h) /\ ~permit[h]) => pollResult[h] = "pending"

\* C16 witness: the original and a clone polled the empty queue; one is ready and
\* holds the reservation, the other is pending and waits.
AdmissionBoundWitness ==
    /\ ~rxClosed
    /\ queue = <<>>
    /\ \E h, g \in Handles :
          /\ h # g
          /\ Live(h) /\ pollResult[h] = "ready" /\ permit[h]
          /\ Live(g) /\ pollResult[g] = "pending" /\ InSeq(waiters, g)

\* C17: when the Worker task ends without recording an error while accepted
\* requests are unanswered, each of their futures resolves with "worker dropped the
\* request", its slot having been dropped unwritten; from then on the front-ends
\* find the queue closed and get an error from poll_ready and from call, and no
\* future stays pending.
SilentWorkerDeath ==
    /\ [][(wstate' = "Aborted" /\ wstate # "Aborted") =>
            \A r \in Requests :
                /\ (Accepted(r) /\ slot[r] = Pending) => slot'[r] = Gone
                /\ (Accepted(r) /\ fut[r] = Pending) => fut'[r] = Err(DroppedRequest)]_vars
    /\ [](wstate = "Aborted" =>
            /\ rxClosed
            /\ cell = NoError
            /\ \A r \in Requests : fut[r] # Pending /\ slot[r] # Pending
            /\ \A r \in Requests :
                  Accepted(r) => Response(r) \in {Ok(r), Err(DroppedRequest)}
            /\ \A h \in Handles : pollResult[h] \in Errors => pollResult[h] = FailedSilently)
    /\ [][\A h \in Handles :
            (wstate = "Aborted" /\ call(h)) =>
                /\ fut'[nextReq] = Err(FailedSilently)
                /\ accepted' = accepted]_vars
    /\ [][\A h \in Handles :
            (wstate = "Aborted" /\ poll_ready(h)) => pollResult'[h] = FailedSilently]_vars

\* C17 witness: the Worker task ended while it processed one request and another
\* was queued; both futures failed with "worker dropped the request", the queued
\* request was never forwarded, and a handle polled afterwards got an error.
SilentWorkerDeathWitness ==
    /\ wstate = "Aborted"
    /\ Len(accepted) >= 2
    /\ fut[accepted[1]] = Err(DroppedRequest)
    /\ fut[accepted[2]] = Err(DroppedRequest)
    /\ ~InSeq(ItemsOf(log), accepted[2])
    /\ \E h \in Handles : Live(h) /\ pollResult[h] = FailedSilently

\* C18: a response goes to the caller of its own request: every call makes a fresh
\* slot, the messages in flight carry different slots, and a future that resolved
\* successfully holds the wrapped service's result for the Item that carried the
\* request of that very call.
ResponseRouting ==
    /\ [][\A h \in Handles :
            call(h) => slot[nextReq] = Unused /\ fut[nextReq] = Unused /\ writes[nextReq] = 0]_vars
    /\ [](\A i, j \in 1..Len(queue) : i # j => queue[i].tx # queue[j].tx)
    /\ [](cur # NoMessage => cur.tx \notin SlotsOf(queue))
    /\ [](\A r \in Requests :
            /\ slot[r].kind = "ok" => slot[r] = Ok(r)
            /\ fut[r].kind = "ok" =>
                  /\ fut[r] = Ok(r)
                  /\ slot[r] = Ok(r)
                  /\ InSeq(ItemsOf(log), r)
            /\ writes[r] <= 1)

\* C18 witness: three requests made while a clone exists were each answered with
\* the result of their own Item.
ResponseRoutingWitness ==
    /\ hstate[2] # "unborn"
    /\ \A r \in 1..3 : fut[r] = Ok(r) /\ accepted[r] = r
    /\ ItemsOf(log) = <<1, 2, 3>>

\* C19: no empty batch is flushed: every Flush comes directly after an Item, so
\* never first and never after another Flush; the Worker that shuts down with an
\* empty batch has sent no Flush for it, and the latency timer runs only while the
\* batch holds an item.
NoEmptyFlush ==
    /\ \A i \in 1..Len(log) : log[i].op = "Flush" => (i > 1 /\ log[i - 1].op = "Item")
    /\ timer >= 0 => (count > 0 \/ wstate = "AwaitItem")
    /\ (wstate = "Collecting" /\ count = 0) => (log = <<>> \/ log[Len(log)].op = "Flush")
    /\ (wstate = "Stopped" /\ ~svcFailed) =>
          /\ count = 0
          /\ Len(SelectSeq(log, LAMBDA e : e.op = "Flush")) <= Len(ItemsOf(log))

\* C19 witness: the Worker flushed one batch by count, went back to an empty batch
\* with the timer off, and shut down without another Flush.
NoEmptyFlushWitness ==
    /\ wstate = "Stopped" /\ ~svcFailed
    /\ timer = -1
    /\ log # <<>> /\ log[Len(log)] = Flush("count")
    /\ Len(SelectSeq(log, LAMBDA e : e.op = "Flush")) = 1

\* The kind of the last call the wrapped service received.
LastOp == IF log = <<>> THEN "none" ELSE log[Len(log)].op

\* C20: every forwarded item is eventually flushed as long as the wrapped service
\* returns no error (and the Worker task is not aborted), by count, by the deadline
\* or because the producers are gone; and the Worker waits for the Flush to be
\* acknowledged before it forwards the first Item of the next batch.
EveryItemFlushed ==
    /\ (LastOp = "Item") ~> (LastOp = "Flush" \/ svcFailed \/ wstate = "Aborted")
    /\ [][wstate = "Flushing" => log' = log]_vars
    /\ [][(LastOp = "Flush" /\ log' # log) =>
            /\ wstate = "Collecting" /\ count = 0
            /\ log' = Append(log, Item(Head(queue).request))]_vars
    /\ [](\A i \in 1..Len(log) :
            log[i].op = "Flush" => log[i].cause \in {"count", "timer", "close"})

\* C20 witness: a message is queued while the Flush of the previous batch is not
\* yet acknowledged; it is not forwarded before the acknowledgement.
EveryItemFlushedWitness ==
    /\ wstate = "Flushing"
    /\ LastOp = "Flush"
    /\ queue # <<>>

====
